---- MODULE Spec2Model ----
(***************************************************************************)
(* Sentiment-analysis service (backend/app): the classifier adapter        *)
(* (MLService), the Redis result cache (CacheService), the persistence     *)
(* writer (PredictionService), the single-predict / batch / upload         *)
(* endpoints and the scheduled drift check.                                *)
(*                                                                         *)
(* Floats are fixed-point: a probability p is the integer p * Scale.       *)
(* Texts are sequences of tokens: a letter, a blank " ", or an HTML tag.   *)
(* The event loop runs one coroutine at a time, so every action below is   *)
(* the code between two await points of one handler.                       *)
(***************************************************************************)
EXTENDS Integers, Sequences, FiniteSets, Bags, TLC

\* ---------------------------------------------------------------- bounds
MaxInflight == 1   \* single-predict requests waiting for Redis at one time
MaxBatch == 2      \* texts in one batch request
MaxRows == 1       \* predictions rows written in one run
MaxRetrains == 1   \* retrainings that write an artifact in one run
MaxPending == 2    \* registrations between their query and their INSERT
MaxTicks == 2      \* steps of the clock in one run
MaxWindows == 1    \* rate-limit windows that end in one run

\* ------------------------------------------------------ program constants
Scale == 100               \* fixed-point representation of 1.0
NeutralThreshold == 60     \* neutral_threshold = 0.6
MaxTextLength == 5000      \* sanitize_text(max_length=5000)
MinSamples == 10           \* detect_drift: len(current_data) < 10
MaxUploadRows == 500       \* upload_csv: len(texts) > 500
MaxBatchTexts == 100       \* BatchPredictionRequest.texts max_length
CACHE_TTL_SECONDS == 3600
MaxExportLimit == 10000    \* export_predictions: limit=min(limit, 10000)
DefaultExportLimit == 1000
HealthTtl == 5

None == "None"
NoModel == [gen |-> 0 - 1, mtype |-> None, load |-> 0]   \* self.model = None
NoVectorizer == [gen |-> 0 - 1, load |-> 0]              \* self.vectorizer = None
NoModelFile == [gen |-> 0 - 1, mtype |-> None]           \* os.path.exists is False
NoVecFile == [gen |-> 0 - 1]
MODEL_VERSION == "v2.0"

ModelTypes == {"logistic_regression", "random_forest", "svm"}

\* --------------------------------------------------------------- helpers
Max(a, b) == IF a >= b THEN a ELSE b
Min(a, b) == IF a <= b THEN a ELSE b

Blank == " "
Tags == {"<i>"}
ControlChars == {"\\x00"}

\* str.strip(): leading and trailing whitespace removed
RECURSIVE LStrip(_)
LStrip(s) == IF s # <<>> /\ Head(s) = Blank THEN LStrip(Tail(s)) ELSE s

RECURSIVE RStrip(_)
RStrip(s) ==
  IF s # <<>> /\ s[Len(s)] = Blank THEN RStrip(SubSeq(s, 1, Len(s) - 1)) ELSE s

Strip(s) == LStrip(RStrip(s))

\* re.sub(r'[ \t]+', ' ', text): runs of blanks become one blank
RECURSIVE CollapseBlanks(_)
CollapseBlanks(s) ==
  IF Len(s) < 2 THEN s
  ELSE IF s[1] = Blank /\ s[2] = Blank THEN CollapseBlanks(Tail(s))
  ELSE <<Head(s)>> \o CollapseBlanks(Tail(s))

\* the tokens of s that are not in the set drop
RECURSIVE Without(_, _)
Without(s, drop) ==
  IF s = <<>> THEN <<>>
  ELSE IF Head(s) \in drop THEN Without(Tail(s), drop)
  ELSE <<Head(s)>> \o Without(Tail(s), drop)

\* core/validators.py sanitize_text
sanitize_text(text) ==
  IF text = <<>> THEN <<>>
  ELSE LET cleaned == Without(text, Tags)
           limited == SubSeq(cleaned, 1, Min(Len(cleaned), MaxTextLength))
           noctl   == Without(limited, ControlChars)
       IN  Strip(CollapseBlanks(noctl))

\* MLService.preprocess_text
preprocess_text(text) == CollapseBlanks(Strip(text))

\* PredictionRequest (Field min_length/max_length, text_must_not_be_empty):
\* ok = FALSE is the 422 answer
ValidateTextLengthOnly(raw) ==
  IF Len(raw) < 1 \/ Len(raw) > MaxTextLength THEN [ok |-> FALSE, text |-> <<>>]
  ELSE [ok |-> TRUE, text |-> Strip(raw)]

ValidateText(raw) ==
  IF Len(raw) < 1 \/ Len(raw) > MaxTextLength THEN [ok |-> FALSE, text |-> <<>>]
  ELSE IF Strip(raw) = <<>> THEN [ok |-> FALSE, text |-> <<>>]
  ELSE [ok |-> TRUE, text |-> Strip(raw)]

\* BatchPredictionRequest (Field min_length/max_length on the list as given,
\* then texts_must_be_valid): ok = FALSE is the validation error
RECURSIVE StripAll(_)
StripAll(ts) ==
  IF ts = <<>> THEN <<>>
  ELSE IF Strip(Head(ts)) = <<>> THEN StripAll(Tail(ts))
  ELSE <<Strip(Head(ts))>> \o StripAll(Tail(ts))

ValidateBatch(n, ts) ==
  IF n < 1 \/ n > MaxBatchTexts THEN [ok |-> FALSE, texts |-> <<>>]
  ELSE [ok |-> TRUE, texts |-> StripAll(ts)]


\* ------------------------------------------------------------- MLService
\* MLService.load_models: the candidate paths, in the order they are tried
\* (settings.MODEL_PATH defaults to the second entry)
model_paths ==
  << "ml/models/sentiment_v2.pkl", "ml/models/sentiment_v2.pkl",
     "sentiment_v1.pkl", "../sentiment_v1.pkl" >>

vectorizer_paths ==
  << "ml/models/vectorizer_v2.pkl", "ml/models/vectorizer_v2.pkl",
     "vectorizer_v1.pkl", "../vectorizer_v1.pkl" >>

ModelPathNames == {model_paths[i] : i \in DOMAIN model_paths}
VecPathNames == {vectorizer_paths[i] : i \in DOMAIN vectorizer_paths}

\* the index of the first candidate path that exists on disk, 0 when none does
RECURSIVE FirstExistingFrom(_, _, _)
FirstExistingFrom(paths, disk, i) ==
  IF i > Len(paths) THEN 0
  ELSE IF disk[paths[i]].gen >= 0 THEN i
  ELSE FirstExistingFrom(paths, disk, i + 1)

FirstExistingLegacyFirst(paths, disk) ==
  IF \E i \in DOMAIN paths : disk[paths[i]].gen >= 0
  THEN CHOOSE i \in DOMAIN paths :
         /\ disk[paths[i]].gen >= 0
         /\ \A j \in i + 1 .. Len(paths) : disk[paths[j]].gen < 0
  ELSE 0

FirstExisting(paths, disk) == FirstExistingFrom(paths, disk, 1)

\* MLService.__init__
NewMLService ==
  [model |-> NoModel, vectorizer |-> NoVectorizer, model_version |-> MODEL_VERSION,
   loaded |-> FALSE]

\* MLService.is_loaded
is_loadedModelOnly(svc) == svc.model # NoModel

is_loaded(svc) == svc.loaded /\ svc.model # NoModel /\ svc.vectorizer # NoVectorizer

\* MLService.load_models.  dM, dV: the files on disk; stamp: the number of this
\* call; mraise, vraise: whether joblib.load raises on the model / vectorizer
\* file it is given.  A loaded artifact keeps the training run (gen) that wrote
\* it and the call (load) that read it.
LoadModels(svc, dM, dV, stamp, mraise, vraise) ==
  LET mi == FirstExisting(model_paths, dM)
      afterM == IF mi # 0 /\ ~mraise
                THEN [svc EXCEPT !.model =
                        [gen |-> dM[model_paths[mi]].gen,
                         mtype |-> dM[model_paths[mi]].mtype,
                         load |-> stamp]]
                ELSE svc
  IN  IF mi # 0 /\ mraise
      THEN [svc |-> svc, ret |-> FALSE]           \* except: return False
      ELSE LET vi == FirstExisting(vectorizer_paths, dV)
           IN  IF vi # 0 /\ vraise
               THEN [svc |-> afterM, ret |-> FALSE] \* except: return False
               ELSE LET afterV == IF vi # 0
                                  THEN [afterM EXCEPT !.vectorizer =
                                          [gen |-> dV[vectorizer_paths[vi]].gen,
                                           load |-> stamp]]
                                  ELSE afterM
                        both == mi # 0 /\ vi # 0
                    IN  [svc |-> [afterV EXCEPT !.loaded = both], ret |-> both]

\* What model.predict / model.predict_proba return for one text: the class and
\* the pair [p_neg, p_pos], which sums to 1.  LogisticRegression and
\* RandomForestClassifier take the class with the larger probability (class 0
\* on a tie); SVC(probability=True) predicts from the decision function while
\* predict_proba comes from Platt scaling, so the two can disagree.
ClassOf(p) == IF p > Scale - p THEN 1 ELSE 0

Outputs(mtype, probs) ==
  { [prediction |-> c, probabilities |-> <<Scale - p, p>>] :
      <<c, p>> \in { cp \in {0, 1} \X probs :
                       mtype = "svm" \/ cp[1] = ClassOf(cp[2]) } }

\* MLService.predict on one classifier output (processing_time_ms left out)
predictNeutralAtThreshold(loaded, out) ==
  IF ~loaded THEN [error |-> "RuntimeError"]
  ELSE LET negative_score == out.probabilities[1]
           positive_score == out.probabilities[2]
           confidence == Max(positive_score, negative_score)
       IN  [error |-> None,
            sentiment |-> IF confidence <= NeutralThreshold THEN "neutral"
                          ELSE IF out.prediction = 1 THEN "positive"
                          ELSE "negative",
            confidence |-> confidence,
            positive_score |-> positive_score,
            negative_score |-> negative_score,
            neutral_score |-> IF confidence <= NeutralThreshold
                              THEN Scale - confidence ELSE 0]

predictSameIndex(loaded, out) ==
  IF ~loaded THEN [error |-> "RuntimeError"]
  ELSE LET negative_score == out.probabilities[2]
           positive_score == out.probabilities[2]
           confidence == Max(positive_score, negative_score)
       IN  [error |-> None,
            sentiment |-> IF confidence < NeutralThreshold THEN "neutral"
                          ELSE IF out.prediction = 1 THEN "positive"
                          ELSE "negative",
            confidence |-> confidence,
            positive_score |-> positive_score,
            negative_score |-> negative_score,
            neutral_score |-> IF confidence < NeutralThreshold
                              THEN Scale - confidence ELSE 0]

predict(loaded, out) ==
  IF ~loaded THEN [error |-> "RuntimeError"]
  ELSE LET negative_score == out.probabilities[1]
           positive_score == out.probabilities[2]
           confidence == Max(positive_score, negative_score)
       IN  [error |-> None,
            sentiment |-> IF confidence < NeutralThreshold THEN "neutral"
                          ELSE IF out.prediction = 1 THEN "positive"
                          ELSE "negative",
            confidence |-> confidence,
            positive_score |-> positive_score,
            negative_score |-> negative_score,
            neutral_score |-> IF confidence < NeutralThreshold
                              THEN Scale - confidence ELSE 0]


\* ---------------------------------------------------------- CacheService
\* Python values handed to the cache: the data and the Python type of each
\* field.  PredictionResponse.model_dump() keeps timestamp a datetime and
\* sentiment a SentimentType (a str subclass).
ResponseTypes ==
  [id |-> "int", sentiment |-> "SentimentType", confidence |-> "float",
   positive_score |-> "float", negative_score |-> "float",
   neutral_score |-> "float", model_version |-> "str",
   timestamp |-> "datetime"]

model_dump(response) == [data |-> response, types |-> ResponseTypes]

PyStr(str) == [data |-> str, types |-> [value |-> "str"]]

\* the types json.dumps encodes; any other raises TypeError
JsonNative == {"int", "float", "str", "bool", "NoneType", "SentimentType"}

JsonType(t) == IF t = "SentimentType" THEN "str" ELSE t

\* json.dumps: ok = FALSE is the TypeError
json_dumps(value) ==
  IF \E f \in DOMAIN value.types : value.types[f] \notin JsonNative
  THEN [ok |-> FALSE, json |-> <<>>]
  ELSE [ok |-> TRUE,
        json |-> <<[data |-> value.data,
                    types |-> [f \in DOMAIN value.types |->
                                 JsonType(value.types[f])]]>>]

\* json.loads of what json_dumps wrote
json_loads(json) == json[1]

\* the routers' key: f"prediction:{md5(clean_text)}:{ml.model_version}"
md5(text) == <<"md5", text>>
CacheKey(clean_text, model_version) ==
  [ns |-> "prediction", hash |-> md5(clean_text), version |-> model_version]
HealthKey == [ns |-> "health_check", hash |-> <<"", <<>>>>, version |-> ""]

\* CacheService.get.  store: the keys Redis holds; fail: the Redis call raises.
\* hit = FALSE is the None answer; raised: an exception leaves get.
CacheGetPropagates(enabled, store, key, fail) ==
  IF ~enabled THEN [hit |-> FALSE, value |-> <<>>, raised |-> FALSE]
  ELSE IF fail THEN [hit |-> FALSE, value |-> <<>>, raised |-> TRUE]
  ELSE IF key \in DOMAIN store
       THEN [hit |-> TRUE, value |-> <<json_loads(store[key].json)>>,
             raised |-> FALSE]
       ELSE [hit |-> FALSE, value |-> <<>>, raised |-> FALSE]

CacheGet(enabled, store, key, fail) ==
  IF ~enabled THEN [hit |-> FALSE, value |-> <<>>, raised |-> FALSE]
  ELSE IF fail THEN [hit |-> FALSE, value |-> <<>>, raised |-> FALSE]
  ELSE IF key \in DOMAIN store
       THEN [hit |-> TRUE, value |-> <<json_loads(store[key].json)>>,
             raised |-> FALSE]
       ELSE [hit |-> FALSE, value |-> <<>>, raised |-> FALSE]

\* CacheService.set, up to its await: sent = TRUE when the SET command goes to
\* Redis, FALSE when set has already returned False
CacheSetSend(enabled, value) ==
  IF ~enabled THEN [sent |-> FALSE, json |-> <<>>]
  ELSE LET d == json_dumps(value)
       IN  IF d.ok THEN [sent |-> TRUE, json |-> d.json]
           ELSE [sent |-> FALSE, json |-> <<>>]

\* CacheService.set, after its await: the store and the value returned
CacheSetDone(store, key, json, expire, fail) ==
  IF fail THEN [store |-> store, ret |-> FALSE]
  ELSE [store |-> (key :> [json |-> json, ttl |-> expire]) @@ store,
        ret |-> TRUE]

\* CacheService.delete
CacheDelete(enabled, store, key, fail) ==
  IF ~enabled THEN [store |-> store, ret |-> FALSE]
  ELSE IF fail THEN [store |-> store, ret |-> FALSE]
  ELSE [store |-> [k \in DOMAIN store \ {key} |-> store[k]], ret |-> TRUE]

\* ----------------------------------------------------- PredictionService
\* A SQLAlchemy session: active, or inactive after a failed flush that nobody
\* rolled back (every later commit then raises PendingRollbackError).
\* PredictionService.create_prediction: db.add, db.commit, db.refresh with no
\* rollback on failure.  dbok: the database accepts the INSERT.
create_prediction(session, table, base, text, p, model_version, dbok) ==
  IF session # "active" \/ ~dbok
  THEN [ok |-> FALSE, session |-> "inactive", table |-> table, row |-> <<>>]
  ELSE LET id == base + Len(table) + 1
           row == [id |-> id, text |-> text, sentiment |-> p.sentiment,
                   confidence |-> p.confidence,
                   positive_score |-> p.positive_score,
                   negative_score |-> p.negative_score,
                   neutral_score |-> p.neutral_score,
                   model_version |-> model_version,
                   created_at |-> id]
       IN  [ok |-> TRUE, session |-> "active", table |-> Append(table, row),
            row |-> <<row>>]

\* PredictionResponse(id=prediction.id, ..., timestamp=prediction.created_at)
PredictionResponseRowBefore(row, p, model_version) ==
  [id |-> row.id - 1, sentiment |-> p.sentiment, confidence |-> p.confidence,
   positive_score |-> p.positive_score, negative_score |-> p.negative_score,
   neutral_score |-> p.neutral_score, model_version |-> model_version,
   timestamp |-> row.created_at]

PredictionResponse(row, p, model_version) ==
  [id |-> row.id, sentiment |-> p.sentiment, confidence |-> p.confidence,
   positive_score |-> p.positive_score, negative_score |-> p.negative_score,
   neutral_score |-> p.neutral_score, model_version |-> model_version,
   timestamp |-> row.created_at]

\* PredictionResponse(**cached_result)
ResponseFromCache(cached) == cached.data


\* ------------------------------------------------------------------ state
VARIABLES
  phase,          \* "boot" before the lifespan start-up has run, then "up"
  ml,             \* the MLService singleton
  diskM, diskV,   \* the artifact files: path -> what joblib.load would read
  loads,          \* load_models calls so far
  trains,         \* training runs that wrote an artifact so far
  cache_enabled,  \* CacheService.enabled
  redis,          \* the keys Redis holds: key -> [json, ttl]
  rows,           \* the predictions table: rows written in this run, in order
  baseRows,       \* rows the table held before this run
  inflight,       \* the single-predict requests suspended at cache.get: a bag
  last,           \* the request that has just finished and what it did, until
                  \* its answer is delivered
  upload,         \* the upload request suspended at file.read()
  drift,          \* the scheduled drift check: its position, its session
                  \* (open while the job runs) and the result it holds
  probe,          \* the latest application of predict to a drawn input
  users,          \* the users table, in the order of the ids
  pending,        \* the registrations that passed the query for their
                  \* email and have not committed: a bag
  clock,          \* the time in minutes, and the steps it took
  limiter         \* the rate limiter of POST /predictions

vars ==
  << phase, ml, diskM, diskV, loads, trains, cache_enabled, redis, rows,
     baseRows, inflight, last, upload, drift, probe, users, pending,
                  clock, limiter >>


\* p_pos * Scale of the texts classified in a run: one below and one above
\* the neutral threshold
SampleProbs == {52, 70}

\* request bodies: plain, with markup and padding around the same text, markup
\* only, blank, empty
RawTexts == {<<"a">>, <<"<i>", "a", " ">>, <<"<i>">>, <<" ">>, <<>>}

NoOut == [raised |-> TRUE, prediction |-> 0, probabilities |-> <<0, 0>>]
NoKey == [ns |-> "", hash |-> <<"", <<>>>>, version |-> ""]
NoResponse ==
  [id |-> 0, sentiment |-> None, confidence |-> 0, positive_score |-> 0,
   negative_score |-> 0, neutral_score |-> 0, model_version |-> None,
   timestamp |-> 0]


\* what is recorded of a finished request
NoLast ==
  [kind |-> "none", status |-> 0,
   clean |-> <<>>, key |-> NoKey, response |-> NoResponse, out |-> NoOut,
   hit |-> FALSE, calls |-> 0, gets |-> 0, sets |-> 0,
   getFailed |-> FALSE, setSent |-> FALSE, setFailed |-> FALSE,
   setRet |-> FALSE,
   clfRaised |-> FALSE, dbFailed |-> FALSE,
   texts |-> <<>>, fate |-> <<>>, results |-> <<>>,
   total_processed |-> 0, rowsBefore |-> 0,
   raw |-> <<>>,
   dstatus |-> None, seen |-> 0, ran |-> FALSE, drift_detected |-> FALSE,
   trained |-> "no", reloaded |-> FALSE, loadRet |-> FALSE,
   session |-> "none", propagated |-> FALSE, count |-> 0,
   filename_ok |-> TRUE, file |-> <<>>,
   token |-> <<>>, email |-> None, existed |-> FALSE, usersBefore |-> 0,
   issued |-> [access_token |-> <<>>, refresh_token |-> <<>>],
   user |-> <<>>, analysed |-> FALSE, listed |-> FALSE]

\* the limiter's storage at the start of a window, with the requests served
\* to each caller in the window
NoLimiter ==
  [window |-> 0, hits |-> [a \in {"203.0.113.7"} |-> 0],
   served |-> [c \in {"authenticated", "anonymous"} |-> 0], refused |-> FALSE]

NoResult == [status |-> None, drift_detected |-> FALSE, ran |-> FALSE, seen |-> 0]

\* the event loop is not inside a step that has not reached its await
LoopFree == drift.pc # "analyzing"

NoProbe == [loaded |-> FALSE, mtype |-> None, out |-> NoOut, result |-> [error |-> None]]

PrimaryModel == model_paths[2]       \* settings.MODEL_PATH
PrimaryVec == vectorizer_paths[2]    \* settings.VECTORIZER_PATH
LegacyModel == model_paths[3]
LegacyVec == vectorizer_paths[3]

\* the deployments a run starts from: no artifact; a trained pair at the
\* configured paths; a pair at the legacy paths only; a model file without its
\* vectorizer.  Between them every model type is loaded.
Deployments ==
  {[m |-> NoModelFile, v |-> NoVecFile, lm |-> NoModelFile, lv |-> NoVecFile]}
  \cup {[m |-> [gen |-> 1, mtype |-> t], v |-> [gen |-> 1],
         lm |-> NoModelFile, lv |-> NoVecFile] :
          t \in {"logistic_regression", "svm"}}
  \cup {[m |-> NoModelFile, v |-> NoVecFile,
         lm |-> [gen |-> 0, mtype |-> "random_forest"], lv |-> [gen |-> 0]]}
  \cup {[m |-> [gen |-> 1, mtype |-> "logistic_regression"], v |-> NoVecFile,
         lm |-> NoModelFile, lv |-> NoVecFile]}

DiskM(d) ==
  [q \in ModelPathNames |->
     IF q = PrimaryModel THEN d.m ELSE IF q = LegacyModel THEN d.lm
     ELSE NoModelFile]

DiskV(d) ==
  [q \in VecPathNames |->
     IF q = PrimaryVec THEN d.v ELSE IF q = LegacyVec THEN d.lv ELSE NoVecFile]

Init ==
  /\ phase = "boot"
  /\ ml = NewMLService
  /\ \E d \in Deployments : diskM = DiskM(d) /\ diskV = DiskV(d)
  /\ loads = 0
  /\ trains = 1
  /\ cache_enabled \in BOOLEAN
  /\ redis = <<>>
  /\ rows = <<>>
  /\ baseRows \in {0, MinSamples - 1}
  /\ inflight = EmptyBag
  /\ last = NoLast
  /\ upload = "idle"
  /\ drift = [pc |-> "idle", session |-> "closed", result |-> NoResult]
  /\ probe = NoProbe
  /\ users = <<>>
  /\ pending = EmptyBag
  /\ clock = [now |-> 0, ticks |-> 0]
  /\ limiter = NoLimiter

\* main.py lifespan: ml_service.load_models() before the first request
Startup ==
  /\ last = NoLast
  /\ phase = "boot"
  /\ \E mraise \in BOOLEAN, vraise \in BOOLEAN :
       ml' = LoadModels(ml, diskM, diskV, loads + 1, mraise, vraise).svc
  /\ loads' = loads + 1
  /\ phase' = "up"
  /\ UNCHANGED last
  /\ UNCHANGED << diskM, diskV, trains, cache_enabled, redis, rows, baseRows,
                  inflight, upload, drift, probe, users, pending,
                  clock, limiter >>

\* what the loaded classifier can do with one text: an output of its model
\* type, or an exception when the model was not fitted on the vectorizer's
\* features
ClassifierOutcomes(svc) ==
  { [raised |-> FALSE, prediction |-> o.prediction,
     probabilities |-> o.probabilities] : o \in Outputs(svc.model.mtype, SampleProbs) }
  \cup (IF svc.model.gen # svc.vectorizer.gen THEN {NoOut} ELSE {})

\* requests suspended at an await that may still write a row
Inflight == BagCardinality(inflight)


\* what can happen to one text on its way through the classifier and the
\* INSERT: out is what the classifier does, dbok whether the database accepts
\* the row.  The database is not asked once the classifier has raised, and a
\* refused row leaves no trace of the output it was built from, so one output
\* stands for all of them there.
TextFates(svc) ==
  {[out |-> o, dbok |-> TRUE] : o \in ClassifierOutcomes(svc)}
  \cup {[out |-> [raised |-> FALSE, prediction |-> 1,
                  probabilities |-> <<Scale - 70, 70>>],
         dbok |-> FALSE]}

\* ---------------------------------------------------------- POST /predict
\* predict_sentiment from ml.predict to its return.  s: what the request holds
\* so far; f: the fate of its text; setFail: the Redis SET raises.  The await
\* inside cache.set is the handler's last step and nothing is read after it,
\* so Redis's answer is taken in the same step.  The result is the new value
\* of every variable the handler can change.
ClassifyAndStoreStorageOptional(s, getFailed, f, setFail) ==
  LET gets == IF cache_enabled THEN 1 ELSE 0
      base == [NoLast EXCEPT !.kind = "predict",
                             !.clean = s.clean, !.key = s.key, !.gets = gets,
                             !.getFailed = getFailed,
                             !.calls = 1, !.rowsBefore = Len(rows)]
      p == IF f.out.raised THEN [error |-> "ValueError"]
           ELSE predict(is_loaded(ml), f.out)
  IN  IF p.error # None
      THEN [rows |-> rows, redis |-> redis,
            last |-> [base EXCEPT !.status = 500, !.clfRaised = TRUE]]
      ELSE
        LET c == create_prediction("active", rows, baseRows, s.clean, p,
                                   ml.model_version, f.dbok)
        IN  IF ~c.ok
            THEN [rows |-> rows, redis |-> redis,
                  last |-> [base EXCEPT !.status = 200, !.dbFailed = TRUE,
                                        !.out = f.out]]
            ELSE
              LET response == PredictionResponse(c.row[1], p, ml.model_version)
                  snd == CacheSetSend(cache_enabled, model_dump(response))
                  d == IF snd.sent
                       THEN CacheSetDone(redis, s.key, snd.json,
                                         CACHE_TTL_SECONDS, setFail)
                       ELSE [store |-> redis, ret |-> FALSE]
              IN  [rows |-> c.table, redis |-> d.store,
                   last |-> [base EXCEPT !.status = 200, !.out = f.out,
                                         !.response = response, !.sets = gets,
                                         !.setSent = snd.sent,
                                         !.setFailed = snd.sent /\ setFail,
                                         !.setRet = d.ret]]

ClassifyAndStore(s, getFailed, f, setFail) ==
  LET gets == IF cache_enabled THEN 1 ELSE 0
      base == [NoLast EXCEPT !.kind = "predict",
                             !.clean = s.clean, !.key = s.key, !.gets = gets,
                             !.getFailed = getFailed,
                             !.calls = 1, !.rowsBefore = Len(rows)]
      p == IF f.out.raised THEN [error |-> "ValueError"]
           ELSE predict(is_loaded(ml), f.out)
  IN  IF p.error # None
      THEN [rows |-> rows, redis |-> redis,
            last |-> [base EXCEPT !.status = 500, !.clfRaised = TRUE]]
      ELSE
        LET c == create_prediction("active", rows, baseRows, s.clean, p,
                                   ml.model_version, f.dbok)
        IN  IF ~c.ok
            THEN [rows |-> rows, redis |-> redis,
                  last |-> [base EXCEPT !.status = 500, !.dbFailed = TRUE]]
            ELSE
              LET response == PredictionResponse(c.row[1], p, ml.model_version)
                  snd == CacheSetSend(cache_enabled, model_dump(response))
                  d == IF snd.sent
                       THEN CacheSetDone(redis, s.key, snd.json,
                                         CACHE_TTL_SECONDS, setFail)
                       ELSE [store |-> redis, ret |-> FALSE]
              IN  [rows |-> c.table, redis |-> d.store,
                   last |-> [base EXCEPT !.status = 200, !.out = f.out,
                                         !.response = response, !.sets = gets,
                                         !.setSent = snd.sent,
                                         !.setFailed = snd.sent /\ setFail,
                                         !.setRet = d.ret]]

\* predict_sentiment up to its first await: request validation, the loaded
\* check, sanitize_text, the cache key; with the cache disabled there is no
\* await and the handler runs to its end
PredictStart(raw) ==
  /\ last = NoLast
  /\ LoopFree
  /\ phase = "up"
  /\ Inflight < MaxInflight
  /\ Len(rows) + Inflight < MaxRows
  /\ LET v == ValidateText(raw)
         clean == sanitize_text(v.text)
         key == CacheKey(clean, ml.model_version)
     IN  IF ~v.ok
         THEN /\ last' = [NoLast EXCEPT !.kind = "predict", !.status = 422,
                                        !.raw = <<raw>>,
                                        !.rowsBefore = Len(rows)]
              /\ UNCHANGED << inflight, rows, redis >>
         ELSE IF ~is_loaded(ml)
         THEN /\ last' = [NoLast EXCEPT !.kind = "predict", !.status = 503,
                                        !.raw = <<raw>>,
                                        !.rowsBefore = Len(rows)]
              /\ UNCHANGED << inflight, rows, redis >>
         ELSE IF cache_enabled
         THEN /\ inflight' =
                   inflight (+) SetToBag({[clean |-> clean, key |-> key]})
              /\ UNCHANGED << last, rows, redis >>
         ELSE \E f \in TextFates(ml) :
                LET e == ClassifyAndStore([clean |-> clean, key |-> NoKey],
                                          FALSE, f, FALSE)
                IN  /\ rows' = e.rows /\ redis' = e.redis
                    /\ last' = [e.last EXCEPT !.raw = <<raw>>]
                    /\ UNCHANGED inflight
  /\ UNCHANGED << phase, ml, diskM, diskV, loads, trains, cache_enabled,
                  baseRows, upload, drift, probe, users, pending,
                  clock, limiter >>

\* predict_sentiment from the answer of cache.get on: a hit is returned as it
\* is; a miss goes on to the classifier, the row and cache.set
PredictAfterGet ==
  /\ last = NoLast
  /\ LoopFree
  /\ \E s \in BagToSet(inflight), fail \in BOOLEAN :
       LET g == CacheGet(cache_enabled, redis, s.key, fail)
           base == [NoLast EXCEPT !.kind = "predict", !.clean = s.clean,
                                  !.key = s.key, !.gets = 1,
                                  !.getFailed = fail, !.rowsBefore = Len(rows)]
       IN  /\ inflight' = inflight (-) SetToBag({s})
           /\ IF g.raised
              THEN /\ last' = [base EXCEPT !.status = 500]
                   /\ UNCHANGED << rows, redis >>
              ELSE IF g.hit
              THEN /\ last' = [base EXCEPT
                                 !.status = 200, !.hit = TRUE,
                                 !.response = ResponseFromCache(g.value[1])]
                   /\ UNCHANGED << rows, redis >>
              ELSE \E f \in TextFates(ml), setFail \in BOOLEAN :
                     LET e == ClassifyAndStore(s, fail, f, setFail)
                     IN  rows' = e.rows /\ redis' = e.redis /\ last' = e.last
  /\ UNCHANGED << phase, ml, diskM, diskV, loads, trains, cache_enabled,
                  baseRows, upload, drift, probe, users, pending,
                  clock, limiter >>

\* --------------------------------------------------------------- Redis
\* a key's time to live runs out
RedisExpire ==
  /\ last = NoLast
  /\ \E k \in DOMAIN redis : redis' = [q \in DOMAIN redis \ {k} |-> redis[q]]
  /\ UNCHANGED last
  /\ UNCHANGED << phase, ml, diskM, diskV, loads, trains, cache_enabled, rows,
                  baseRows, inflight, upload, drift, probe, users, pending,
                  clock, limiter >>

\* GET /health/ready: with the cache enabled it writes the key "health_check"
\* through CacheService.set
Readiness ==
  /\ last = NoLast
  /\ LoopFree
  /\ phase = "up"
  /\ \E setFail \in BOOLEAN :
       LET snd == CacheSetSend(cache_enabled, PyStr("ok"))
       IN  redis' = IF snd.sent
                    THEN CacheSetDone(redis, HealthKey, snd.json, HealthTtl,
                                      setFail).store
                    ELSE redis
  /\ UNCHANGED last
  /\ UNCHANGED << phase, ml, diskM, diskV, loads, trains, cache_enabled, rows,
                  baseRows, inflight, upload, drift, probe, users, pending,
                  clock, limiter >>

\* ------------------------------------------------------- drift and retrain
\* DriftService.detect_drift.  queryOk: the query for the production rows of
\* the window succeeds (it is made outside the method's try block, so its
\* exception leaves the method); refOk: the reference data was loaded; n: the
\* production rows of the window; analysis: what the Evidently report does.
\* ran tells whether report.run was called.
detect_driftBelowNine(queryOk, refOk, n, analysis) ==
  IF ~queryOk
  THEN [status |-> "raised", drift_detected |-> FALSE, ran |-> FALSE, seen |-> 0]
  ELSE IF ~refOk \/ n = 0
  THEN [status |-> "error", drift_detected |-> FALSE, ran |-> FALSE, seen |-> n]
  ELSE IF n < MinSamples - 1
  THEN [status |-> "skipped", drift_detected |-> FALSE, ran |-> FALSE, seen |-> n]
  ELSE IF analysis = "raise"
  THEN [status |-> "error", drift_detected |-> FALSE, ran |-> TRUE, seen |-> n]
  ELSE [status |-> "success", drift_detected |-> (analysis = "drift"),
        ran |-> TRUE, seen |-> n]

detect_drift(queryOk, refOk, n, analysis) ==
  IF ~queryOk
  THEN [status |-> "raised", drift_detected |-> FALSE, ran |-> FALSE, seen |-> 0]
  ELSE IF ~refOk \/ n = 0
  THEN [status |-> "error", drift_detected |-> FALSE, ran |-> FALSE, seen |-> n]
  ELSE IF n < MinSamples
  THEN [status |-> "skipped", drift_detected |-> FALSE, ran |-> FALSE, seen |-> n]
  ELSE IF analysis = "raise"
  THEN [status |-> "error", drift_detected |-> FALSE, ran |-> TRUE, seen |-> n]
  ELSE [status |-> "success", drift_detected |-> (analysis = "drift"),
        ran |-> TRUE, seen |-> n]

\* what the Evidently report can do
Analyses == {"drift", "nodrift", "raise"}

\* check_drift_and_retrain: if result.get("drift_detected", False)
retrain_wanted(result) == result.status # "raised" /\ result.drift_detected

\* check_drift_and_retrain: load_models is reached only when the awaited
\* training returned; an exception of the training goes to the except clause
reload_afterAnyTraining(trained) == trained \in {"ok", "raised"}

reload_after(trained) == trained = "ok"

\* check_drift_and_retrain: except Exception logs what was raised inside the
\* try block, and finally closes the session
job_exitNoExcept(raised) == [propagated |-> raised, session |-> "closed"]

job_exit(raised) == [propagated |-> FALSE, session |-> "closed"]

\* what is recorded of a finished drift check
JobDone(result, trained, reloaded, loadRet) ==
  LET raised == result.status = "raised" \/ trained = "raised"
      x == job_exit(raised)
  IN  [NoLast EXCEPT !.kind = "drift_check", !.dstatus = result.status,
                     !.seen = result.seen, !.ran = result.ran,
                     !.drift_detected = result.drift_detected,
                     !.trained = trained, !.reloaded = reloaded,
                     !.loadRet = loadRet, !.session = x.session,
                     !.propagated = x.propagated, !.rowsBefore = Len(rows)]

\* the scheduler starts check_drift_and_retrain: SessionLocal(), then the
\* call of detect_drift, which is not awaited
DriftBegin ==
  /\ last = NoLast
  /\ phase = "up"
  /\ drift.pc = "idle"
  /\ trains <= MaxRetrains
  /\ drift' = [pc |-> "analyzing", session |-> "open",
               result |-> NoResult]
  /\ UNCHANGED last
  /\ UNCHANGED << phase, ml, diskM, diskV, loads, trains, cache_enabled, redis,
                  rows, baseRows, inflight, upload, probe, users, pending,
                  clock, limiter >>

\* check_drift_and_retrain from the return of detect_drift to its await, or
\* to its end: with drift detected the training starts in the executor
DriftCheck ==
  /\ drift.pc = "analyzing"
  /\ \E queryOk \in BOOLEAN, refOk \in BOOLEAN, analysis \in Analyses :
       LET result == detect_drift(queryOk, refOk, baseRows + Len(rows),
                                  analysis)
       IN  IF retrain_wanted(result)
           THEN /\ drift' = [drift EXCEPT !.pc = "training", !.result = result]
                /\ UNCHANGED last
           ELSE /\ drift' = [drift EXCEPT !.pc = "idle", !.session = "closed",
                                          !.result = NoResult]
                /\ last' = JobDone(result, "no", FALSE, FALSE)
  /\ UNCHANGED << phase, ml, diskM, diskV, loads, trains, cache_enabled, redis,
                  rows, baseRows, inflight, upload, probe, users, pending,
                  clock, limiter >>

\* ml.train.train_model("logistic_regression") ends and check_drift_and_retrain
\* resumes.  save_artifacts dumps the model file, then the vectorizer file; a
\* training that raises skips load_models.
TrainingEnds ==
  /\ last = NoLast
  /\ drift.pc = "training"
  /\ drift' = [drift EXCEPT !.pc = "idle", !.session = "closed",
                            !.result = NoResult]
  /\ \E outcome \in {"ok", "failed_before_save", "failed_between_dumps"} :
       LET newM == [gen |-> trains + 1, mtype |-> "logistic_regression"]
           newV == [gen |-> trains + 1]
           trained == IF outcome = "ok" THEN "ok" ELSE "raised"
       IN  /\ diskM' = IF outcome = "failed_before_save" THEN diskM
                       ELSE [diskM EXCEPT ![PrimaryModel] = newM]
           /\ diskV' = IF outcome = "ok"
                       THEN [diskV EXCEPT ![PrimaryVec] = newV]
                       ELSE diskV
           /\ trains' = IF outcome = "failed_before_save" THEN trains
                        ELSE trains + 1
           /\ IF reload_after(trained)
              THEN \E mraise \in BOOLEAN, vraise \in BOOLEAN :
                     LET l == LoadModels(ml, diskM', diskV', loads + 1,
                                         mraise, vraise)
                     IN  /\ ml' = l.svc
                         /\ loads' = loads + 1
                         /\ last' = JobDone(drift.result, trained, TRUE, l.ret)
              ELSE /\ UNCHANGED << ml, loads >>
                   /\ last' = JobDone(drift.result, trained, FALSE, FALSE)
  /\ UNCHANGED << phase, cache_enabled, redis, rows, baseRows, inflight, upload, probe, users, pending,
                  clock, limiter >>

\* POST /drift/analyze, trigger_drift_analysis: detect_drift is called and its
\* result returned; an exception becomes the answer 500
trigger_drift_analysis(result) ==
  [NoLast EXCEPT
     !.kind = "analyze",
     !.status = IF result.status = "raised" THEN 500 ELSE 200,
     !.analysed = TRUE,
     !.dstatus = result.status, !.seen = result.seen,
     !.ran = result.ran,
     !.drift_detected = result.drift_detected,
     !.rowsBefore = Len(rows)]

\* the request of a caller the handler's dependency has admitted
DriftAnalyze ==
  /\ last = NoLast
  /\ LoopFree
  /\ phase = "up"
  /\ \E queryOk \in BOOLEAN, refOk \in BOOLEAN, analysis \in Analyses :
       last' = trigger_drift_analysis(
                 detect_drift(queryOk, refOk, baseRows + Len(rows), analysis))
  /\ UNCHANGED << phase, ml, diskM, diskV, loads, trains, cache_enabled, redis,
                  rows, baseRows, inflight, upload, drift, probe, users, pending,
                  clock, limiter >>

\* ------------------------------------------------------------ read-only
\* PredictionService.get_stats: the total is a count over the table
get_stats(base, table) == [total_predictions |-> base + Len(table), table |-> table]

\* PredictionService.export_predictions: a query with a limit; table is the
\* table after the call
export_predictionsPurging(base, table, limit) ==
  [count |-> Min(limit, base + Len(table)), table |-> <<>>]

export_predictions(base, table, limit) ==
  [count |-> Min(limit, base + Len(table)), table |-> table]

\* GET /stats
GetStats ==
  /\ last = NoLast
  /\ LoopFree
  /\ phase = "up"
  /\ LET st == get_stats(baseRows, rows)
     IN  /\ rows' = st.table
         /\ last' = [NoLast EXCEPT !.kind = "stats", !.status = 200,
                                   !.count = st.total_predictions,
                                   !.rowsBefore = Len(rows)]
  /\ UNCHANGED << phase, ml, diskM, diskV, loads, trains, cache_enabled, redis,
                  baseRows, inflight, upload, drift, probe, users, pending,
                  clock, limiter >>

\* GET /predictions/export
ExportPredictions ==
  /\ last = NoLast
  /\ LoopFree
  /\ phase = "up"
  /\ \E limit \in {1, DefaultExportLimit, MaxExportLimit + 1} :
       LET e == export_predictions(baseRows, rows, Min(limit, MaxExportLimit))
       IN  /\ rows' = e.table
           /\ last' = [NoLast EXCEPT !.kind = "export", !.status = 200,
                                     !.count = e.count,
                                     !.rowsBefore = Len(rows)]
  /\ UNCHANGED << phase, ml, diskM, diskV, loads, trains, cache_enabled, redis,
                  baseRows, inflight, upload, drift, probe, users, pending,
                  clock, limiter >>

\* ------------------------------------------------------ POST /predict/batch
\* the fates of the texts of one batch: the classifier is a function of the
\* text, so equal texts of one request raise together and get equal outputs
BatchFates(svc, texts) ==
  {f \in [1 .. Len(texts) -> TextFates(svc)] :
     \A i \in 1 .. Len(texts), j \in 1 .. Len(texts) :
       texts[i] = texts[j] =>
         /\ f[i].out.raised <=> f[j].out.raised
         /\ (f[i].dbok /\ f[j].dbok) => f[i].out = f[j].out}

\* the loop of predict_batch from text i on.  fates[i]: what the classifier
\* and the database do with text i.  fate[i] tells why text i has no result:
\* "classifier" (predict raised), "database" (its INSERT was refused),
\* "session" (its INSERT was acceptable but the session was left inactive by
\* an earlier failure).
RECURSIVE BatchLoop(_, _, _, _, _, _, _)
BatchLoop(svc, texts, fates, i, base, session, acc) ==
  IF i > Len(texts) THEN acc
  ELSE
    LET p == IF fates[i].out.raised THEN [error |-> "ValueError"]
             ELSE predict(is_loaded(svc), fates[i].out)
    IN  IF p.error # None
        THEN BatchLoop(svc, texts, fates, i + 1, base, session,
                       [acc EXCEPT !.fate = Append(@, "classifier")])
        ELSE
          LET c == create_prediction(session, acc.table, base, texts[i], p,
                                     svc.model_version, fates[i].dbok)
          IN  IF ~c.ok
              THEN BatchLoop(svc, texts, fates, i + 1, base, c.session,
                             [acc EXCEPT !.fate =
                                Append(@, IF fates[i].dbok THEN "session"
                                          ELSE "database")])
              ELSE BatchLoop(svc, texts, fates, i + 1, base, c.session,
                             [acc EXCEPT
                                !.fate = Append(@, "ok"),
                                !.table = c.table,
                                !.results = Append(@, PredictionResponse(
                                              c.row[1], p, svc.model_version))])

\* predict_batch: 503 when no model is loaded, else the loop and the
\* BatchPredictionResponse
predict_batch(svc, texts, fates, table, base) ==
  IF ~is_loaded(svc)
  THEN [status |-> 503, fate |-> <<>>, results |-> <<>>, total_processed |-> 0,
        table |-> table]
  ELSE LET acc == BatchLoop(svc, texts, fates, 1, base, "active",
                            [fate |-> <<>>, results |-> <<>>, table |-> table])
       IN  [status |-> 200, fate |-> acc.fate, results |-> acc.results,
            total_processed |-> Len(acc.results), table |-> acc.table]

\* the texts of a batch body; n is the length of the list, which is longer
\* than the texts enumerated only for the body over the limit
SeqsUpTo(S, k) == UNION {[1 .. m -> S] : m \in 0 .. k}

\* lists of texts, and the same lists behind a blank text
BatchInputs ==
  {[n |-> Len(ts), texts |-> ts] : ts \in SeqsUpTo({<<"a">>}, MaxBatch)}
  \cup {[n |-> Len(ts) + 1, texts |-> <<<<" ">>>> \o ts] :
          ts \in SeqsUpTo({<<"a">>}, MaxBatch - 1)}
  \cup {[n |-> MaxBatchTexts + 1, texts |-> <<>>]}

BatchDone(kind, status, texts, b) ==
  [NoLast EXCEPT !.kind = kind, !.status = status,
                 !.texts = texts, !.fate = b.fate, !.results = b.results,
                 !.total_processed = b.total_processed,
                 !.calls = Len(texts), !.rowsBefore = Len(rows)]

PredictBatch(raw) ==
  /\ last = NoLast
  /\ LoopFree
  /\ phase = "up"
  /\ LET v == ValidateBatch(raw.n, raw.texts)
     IN  IF ~v.ok
         THEN /\ last' = [NoLast EXCEPT !.kind = "batch", !.status = 422,
                                        !.rowsBefore = Len(rows)]
              /\ UNCHANGED rows
         ELSE IF ~is_loaded(ml)
         THEN /\ last' = [NoLast EXCEPT !.kind = "batch", !.status = 503,
                                        !.rowsBefore = Len(rows)]
              /\ UNCHANGED rows
         ELSE \E fates \in BatchFates(ml, v.texts) :
                LET b == predict_batch(ml, v.texts, fates, rows, baseRows)
                IN  /\ Len(b.table) + Inflight <= MaxRows
                    /\ last' = BatchDone("batch", b.status, v.texts, b)
                    /\ rows' = b.table
  /\ UNCHANGED << phase, ml, diskM, diskV, loads, trains, cache_enabled, redis,
                  baseRows, inflight, upload, drift, probe, users, pending,
                  clock, limiter >>

\* ----------------------------------------------------- POST /predict/upload
\* what file.read() can return: bytes that are not UTF-8, a CSV without a
\* 'text' column, or the rows whose text column is not blank
UploadContents ==
  {[utf8 |-> FALSE, has_text |-> FALSE, n |-> 0, texts |-> <<>>],
   [utf8 |-> TRUE, has_text |-> FALSE, n |-> 0, texts |-> <<>>],
   [utf8 |-> TRUE, has_text |-> TRUE, n |-> MaxBatchTexts + 1, texts |-> <<>>],
   [utf8 |-> TRUE, has_text |-> TRUE, n |-> MaxUploadRows + 1, texts |-> <<>>]}
  \cup {[utf8 |-> TRUE, has_text |-> TRUE, n |-> Len(ts), texts |-> ts] :
          ts \in SeqsUpTo({<<"a">>}, MaxBatch)}

\* upload_csv up to its await file.read(): the loaded check and the file name
UploadStart(csv) ==
  /\ last = NoLast
  /\ LoopFree
  /\ phase = "up"
  /\ upload = "idle"
  /\ IF ~is_loaded(ml)
     THEN /\ last' = [NoLast EXCEPT !.kind = "upload", !.status = 503,
                                    !.rowsBefore = Len(rows)]
          /\ UNCHANGED upload
     ELSE IF ~csv
     THEN /\ last' = [NoLast EXCEPT !.kind = "upload", !.status = 400,
                                    !.filename_ok = FALSE,
                                    !.rowsBefore = Len(rows)]
          /\ UNCHANGED upload
     ELSE /\ upload' = "reading"
          /\ UNCHANGED last
  /\ UNCHANGED << phase, ml, diskM, diskV, loads, trains, cache_enabled, redis,
                  rows, baseRows, inflight, drift, probe, users, pending,
                  clock, limiter >>

\* upload_csv after file.read().  An HTTPException raised inside the try
\* block is caught by its except Exception clause.
UploadAfterRead ==
  /\ last = NoLast
  /\ LoopFree
  /\ upload = "reading"
  /\ upload' = "idle"
  /\ \E file \in UploadContents :
       LET fail(status) == [NoLast EXCEPT !.kind = "upload", !.status = status,
                                          !.file = <<file>>,
                                          !.rowsBefore = Len(rows)]
           v == ValidateBatch(file.n, file.texts)
       IN  IF ~file.utf8 THEN last' = fail(400) /\ UNCHANGED rows
           ELSE IF ~file.has_text THEN last' = fail(500) /\ UNCHANGED rows
           ELSE IF file.n > MaxUploadRows THEN last' = fail(500) /\ UNCHANGED rows
           ELSE IF ~v.ok THEN last' = fail(500) /\ UNCHANGED rows
           ELSE \E fates \in BatchFates(ml, v.texts) :
                  LET b == predict_batch(ml, v.texts, fates, rows, baseRows)
                  IN  /\ Len(b.table) + Inflight <= MaxRows
                      /\ last' = [BatchDone("upload",
                                            IF b.status = 200 THEN 200 ELSE 500,
                                            v.texts, b)
                                    EXCEPT !.file = <<file>>]
                      /\ rows' = b.table
  /\ UNCHANGED << phase, ml, diskM, diskV, loads, trains, cache_enabled, redis,
                  baseRows, inflight, drift, probe, users, pending,
                  clock, limiter >>

\* the answer of the request that just finished leaves the service; the log
\* line of a finished drift check is written
Deliver ==
  /\ last # NoLast
  /\ last' = NoLast
  /\ UNCHANGED << phase, ml, diskM, diskV, loads, trains, cache_enabled, redis,
                  rows, baseRows, inflight, upload, drift, probe, users, pending,
                  clock, limiter >>

\* ------------------------------------------------------------------ specs
Next ==
  \/ Startup
  \/ \E raw \in RawTexts : PredictStart(raw)
  \/ PredictAfterGet
  \/ RedisExpire
  \/ Readiness
  \/ DriftBegin
  \/ DriftCheck
  \/ TrainingEnds
  \/ DriftAnalyze
  \/ GetStats
  \/ ExportPredictions
  \/ \E raw \in BatchInputs : PredictBatch(raw)
  \/ \E csv \in BOOLEAN : UploadStart(csv)
  \/ UploadAfterRead
  \/ Deliver

Spec == Init /\ [][Next]_vars

\* The event loop runs every callback that is ready: a step that holds the
\* loop ends, an answer is delivered, and the coroutine waiting for the
\* executor is resumed once the training thread has ended.
SpecLive ==
  /\ Spec
  /\ WF_vars(DriftCheck)
  /\ WF_vars(Deliver)
  /\ SF_vars(TrainingEnds)

\* predict applied to every classifier output of every model type
PredictInputs ==
  {[loaded |-> l, mtype |-> t, out |-> o] :
     l \in BOOLEAN, t \in ModelTypes, o \in Outputs("svm", 0 .. Scale)}

InitPredict ==
  /\ Init
  /\ cache_enabled = FALSE
  /\ baseRows = 0
  /\ diskM = DiskM([m |-> NoModelFile, v |-> NoVecFile, lm |-> NoModelFile,
                    lv |-> NoVecFile])

ApplyPredict ==
  /\ probe = NoProbe
  /\ \E i \in PredictInputs :
       /\ i.out \in Outputs(i.mtype, 0 .. Scale)
       /\ probe' = [loaded |-> i.loaded, mtype |-> i.mtype, out |-> i.out,
                    result |-> predict(i.loaded, i.out)]
  /\ UNCHANGED << phase, ml, diskM, diskV, loads, trains, cache_enabled, redis,
                  rows, baseRows, inflight, last, upload, drift, users, pending,
                  clock, limiter >>

SpecPredict == InitPredict /\ [][ApplyPredict]_vars

\* ------------------------------------------------------ users and tokens
\* core/security.py.  Time is counted in minutes.  A JWT is its payload and
\* the key it was signed with; jwt.decode raises JWTError on another key and
\* on a token past its exp.
SECRET_KEY == "settings.SECRET_KEY"
ACCESS_TOKEN_EXPIRE_MINUTES == 30
REFRESH_TOKEN_EXPIRE_DAYS == 7
MinutesPerDay == 1440

jwt_encode(payload, key) == [payload |-> payload, sig |-> key]

create_access_token(subject, now) ==
  jwt_encode([sub |-> subject, exp |-> now + ACCESS_TOKEN_EXPIRE_MINUTES,
              type |-> "access", iat |-> now], SECRET_KEY)

create_refresh_token(subject, now) ==
  jwt_encode([sub |-> subject,
              exp |-> now + REFRESH_TOKEN_EXPIRE_DAYS * MinutesPerDay,
              type |-> "refresh", iat |-> now], SECRET_KEY)

\* create_tokens
create_tokens(subject, now) ==
  [access_token |-> <<create_access_token(subject, now)>>,
   refresh_token |-> <<create_refresh_token(subject, now)>>]

\* decode_token: ok = FALSE is the None answer
NoTokenData == [ok |-> FALSE, sub |-> None, exp |-> 0, type |-> None]

decode_token(token, now) ==
  IF token.sig # SECRET_KEY \/ token.payload.exp < now THEN NoTokenData
  ELSE [ok |-> TRUE, sub |-> token.payload.sub, exp |-> token.payload.exp,
        type |-> token.payload.type]

\* get_password_hash, verify_password
get_password_hash(password) == <<"bcrypt", password>>
verify_password(plain_password, hashed_password) ==
  hashed_password = get_password_hash(plain_password)

\* core/validators.py validate_password, behind Field(min_length=8)
UpperCase == {"P"}
LowerCase == {"a", "s", "w", "r", "d"}
Digits == {"0"}
MinPasswordLength == 8

validate_password(password) ==
  /\ Len(password) >= MinPasswordLength
  /\ \E i \in DOMAIN password : password[i] \in UpperCase
  /\ \E i \in DOMAIN password : password[i] \in LowerCase
  /\ \E i \in DOMAIN password : password[i] \in Digits

\* db.query(User).filter(User.email == email).first(): the rows found, at most
\* the first
RECURSIVE FirstUserFrom(_, _, _)
FirstUserFrom(table, email, i) ==
  IF i > Len(table) THEN <<>>
  ELSE IF table[i].email = email THEN <<table[i]>>
  ELSE FirstUserFrom(table, email, i + 1)

first_user(table, email) == FirstUserFrom(table, email, 1)

\* db.add(new_user); db.commit() on the users table, whose email column is
\* unique: ok = FALSE is the IntegrityError
insert_userNoUniqueIndex(table, row) ==
  [ok |-> TRUE, table |-> Append(table, [row EXCEPT !.id = Len(table) + 1])]

insert_user(table, row) ==
  IF \E i \in DOMAIN table : table[i].email = row.email
  THEN [ok |-> FALSE, table |-> table]
  ELSE [ok |-> TRUE, table |-> Append(table, [row EXCEPT !.id = Len(table) + 1])]

\* User(email=..., hashed_password=...) with the column defaults
NewUser(email, password) ==
  [id |-> 0, email |-> email, hashed_password |-> get_password_hash(password),
   is_active |-> TRUE, is_admin |-> FALSE, last_login |-> 0 - 1]

\* dependencies.py.  A dependency answers the user it admits (status 200) or
\* the status of the HTTPException it raises.  token = <<>>: the request has
\* no Authorization header, which oauth2_scheme_required answers 401.
get_current_userAnyType(token, table, now) ==
  IF token = <<>> THEN [status |-> 401, user |-> <<>>]
  ELSE LET token_data == decode_token(token[1], now)
       IN  IF ~token_data.ok THEN [status |-> 401, user |-> <<>>]
           ELSE LET user == first_user(table, token_data.sub)
                IN  IF user = <<>> THEN [status |-> 401, user |-> <<>>]
                    ELSE [status |-> 200, user |-> user]

get_current_user(token, table, now) ==
  IF token = <<>> THEN [status |-> 401, user |-> <<>>]
  ELSE LET token_data == decode_token(token[1], now)
       IN  IF ~token_data.ok THEN [status |-> 401, user |-> <<>>]
           ELSE IF token_data.type # "access" THEN [status |-> 401, user |-> <<>>]
           ELSE LET user == first_user(table, token_data.sub)
                IN  IF user = <<>> THEN [status |-> 401, user |-> <<>>]
                    ELSE [status |-> 200, user |-> user]

get_current_active_user(token, table, now) ==
  LET c == get_current_user(token, table, now)
  IN  IF c.status # 200 THEN c
      ELSE IF ~c.user[1].is_active THEN [status |-> 403, user |-> <<>>]
      ELSE c

get_current_admin_userActiveSuffices(token, table, now) ==
  get_current_active_user(token, table, now)

get_current_admin_user(token, table, now) ==
  LET c == get_current_active_user(token, table, now)
  IN  IF c.status # 200 THEN c
      ELSE IF ~c.user[1].is_admin THEN [status |-> 403, user |-> <<>>]
      ELSE c

\* the accounts: one to be registered, an administrator and a disabled
\* account, both set up in the database by the operator
NewEmail == "newuser@example.com"
AdminEmail == "admin@example.com"
DisabledEmail == "off@example.com"
Emails == {NewEmail, AdminEmail, DisabledEmail}

GoodPassword == <<"P", "a", "s", "s", "w", "0", "r", "d">>
Passwords ==
  {GoodPassword,
   <<"a", "a", "s", "s", "w", "0", "r", "d">>,
   <<"P", "a", "s", "s", "0">>}

SeedTables ==
  {<<>>,
   <<[id |-> 1, email |-> AdminEmail,
      hashed_password |-> get_password_hash(GoodPassword),
      is_active |-> TRUE, is_admin |-> TRUE, last_login |-> 0 - 1]>>,
   <<[id |-> 1, email |-> AdminEmail,
      hashed_password |-> get_password_hash(GoodPassword),
      is_active |-> TRUE, is_admin |-> TRUE, last_login |-> 0 - 1],
     [id |-> 2, email |-> DisabledEmail,
      hashed_password |-> get_password_hash(GoodPassword),
      is_active |-> FALSE, is_admin |-> TRUE, last_login |-> 0 - 1]>>}

\* the tokens a caller can present at time now: none, one signed with another
\* key, and the access and refresh tokens the service issues, for each account
\* and each time of issue
IssueTimes == {0, ACCESS_TOKEN_EXPIRE_MINUTES + 1}

ForgedToken ==
  jwt_encode([sub |-> AdminEmail, exp |-> REFRESH_TOKEN_EXPIRE_DAYS * MinutesPerDay,
              type |-> "access", iat |-> 0], "another key")

PresentableTokens(now) ==
  {<<>>, <<ForgedToken>>}
  \cup {<<create_access_token(e, t)>> : e \in Emails, t \in {i \in IssueTimes : i <= now}}
  \cup {<<create_refresh_token(e, t)>> : e \in Emails, t \in {i \in IssueTimes : i <= now}}

AuthDone(kind, status, token) ==
  [NoLast EXCEPT !.kind = kind, !.status = status, !.token = token,
                 !.usersBefore = Len(users), !.rowsBefore = Len(rows)]

\* POST /auth/register up to its INSERT: the request validation and the
\* query for the email
RegisterStart(email, password) ==
  /\ last = NoLast
  /\ BagCardinality(pending) < MaxPending
  /\ IF ~validate_password(password)
     THEN /\ last' = [AuthDone("register", 422, <<>>) EXCEPT !.email = email]
          /\ UNCHANGED pending
     ELSE IF first_user(users, email) # <<>>
     THEN /\ last' = [AuthDone("register", 400, <<>>) EXCEPT
                        !.email = email, !.existed = TRUE]
          /\ UNCHANGED pending
     ELSE /\ pending' = pending (+) SetToBag({[email |-> email,
                                                password |-> password]})
          /\ UNCHANGED last
  /\ UNCHANGED << phase, ml, diskM, diskV, loads, trains, cache_enabled, redis,
                  rows, baseRows, inflight, upload, drift, probe, users, clock,
                  limiter >>

\* POST /auth/register from db.commit() on: the INSERT, then the tokens and
\* the answer 201; an IntegrityError is not handled and is answered 500
RegisterCommit ==
  /\ last = NoLast
  /\ \E r \in BagToSet(pending) :
       LET ins == insert_user(users, NewUser(r.email, r.password))
       IN  /\ pending' = pending (-) SetToBag({r})
           /\ users' = ins.table
           /\ IF ~ins.ok
              THEN last' = [AuthDone("register", 500, <<>>) EXCEPT
                              !.email = r.email]
              ELSE last' = [AuthDone("register", 201, <<>>) EXCEPT
                              !.email = r.email,
                              !.issued = create_tokens(r.email, clock.now),
                              !.user = <<ins.table[Len(ins.table)]>>]
  /\ UNCHANGED << phase, ml, diskM, diskV, loads, trains, cache_enabled, redis,
                  rows, baseRows, inflight, upload, drift, probe, clock,
                  limiter >>

\* POST /auth/login
Login(email, password) ==
  /\ last = NoLast
  /\ LET user == first_user(users, email)
     IN  IF user = <<>> \/ ~verify_password(password, user[1].hashed_password)
         THEN /\ last' = [AuthDone("login", 401, <<>>) EXCEPT !.email = email]
              /\ UNCHANGED users
         ELSE IF ~user[1].is_active
         THEN /\ last' = [AuthDone("login", 403, <<>>) EXCEPT !.email = email]
              /\ UNCHANGED users
         ELSE /\ users' = [users EXCEPT ![user[1].id].last_login = clock.now]
              /\ last' = [AuthDone("login", 200, <<>>) EXCEPT
                            !.email = email,
                            !.issued = create_tokens(email, clock.now),
                            !.user = <<users'[user[1].id]>>]
  /\ UNCHANGED << phase, ml, diskM, diskV, loads, trains, cache_enabled, redis,
                  rows, baseRows, inflight, upload, drift, probe, pending, clock,
                  limiter >>

\* POST /auth/refresh
refresh_token(token, table, now) ==
  LET token_data == decode_token(token[1], now)
  IN  IF ~token_data.ok THEN [status |-> 401, access_token |-> <<>>]
      ELSE IF token_data.type # "refresh"
      THEN [status |-> 401, access_token |-> <<>>]
      ELSE LET user == first_user(table, token_data.sub)
           IN  IF user = <<>> \/ ~user[1].is_active
               THEN [status |-> 401, access_token |-> <<>>]
               ELSE [status |-> 200,
                     access_token |-> <<create_access_token(user[1].email, now)>>]

Refresh(token) ==
  /\ last = NoLast
  /\ token # <<>>
  /\ LET r == refresh_token(token, users, clock.now)
     IN  last' = [AuthDone("refresh", r.status, token) EXCEPT
                    !.issued = [access_token |-> r.access_token,
                                refresh_token |-> <<>>]]
  /\ UNCHANGED << phase, ml, diskM, diskV, loads, trains, cache_enabled, redis,
                  rows, baseRows, inflight, upload, drift, probe, users, pending,
                  clock, limiter >>

\* GET /auth/me
Me(token) ==
  /\ last = NoLast
  /\ LET c == get_current_active_user(token, users, clock.now)
     IN  last' = [AuthDone("me", c.status, token) EXCEPT !.user = c.user]
  /\ UNCHANGED << phase, ml, diskM, diskV, loads, trains, cache_enabled, redis,
                  rows, baseRows, inflight, upload, drift, probe, users, pending,
                  clock, limiter >>

\* POST /drift/analyze with its dependency get_current_admin_user, which is
\* resolved before the handler is entered
DriftAnalyzeAs(token) ==
  /\ last = NoLast
  /\ LoopFree
  /\ phase = "up"
  /\ LET c == get_current_admin_user(token, users, clock.now)
     IN  IF c.status # 200
         THEN last' = AuthDone("analyze", c.status, token)
         ELSE \E queryOk \in BOOLEAN, refOk \in BOOLEAN, analysis \in Analyses :
                last' = [trigger_drift_analysis(
                           detect_drift(queryOk, refOk, baseRows + Len(rows),
                                        analysis))
                         EXCEPT !.token = token, !.user = c.user,
                                !.usersBefore = Len(users)]
  /\ UNCHANGED << phase, ml, diskM, diskV, loads, trains, cache_enabled, redis,
                  rows, baseRows, inflight, upload, drift, probe, users, pending,
                  clock, limiter >>

\* GET /drift/reports with the same dependency
ListReportsAs(token) ==
  /\ last = NoLast
  /\ phase = "up"
  /\ LET c == get_current_admin_user(token, users, clock.now)
     IN  last' = [AuthDone("reports", c.status, token) EXCEPT
                    !.user = c.user, !.listed = (c.status = 200)]
  /\ UNCHANGED << phase, ml, diskM, diskV, loads, trains, cache_enabled, redis,
                  rows, baseRows, inflight, upload, drift, probe, users, pending,
                  clock, limiter >>

\* the operator disables an account in the database
OperatorDisables ==
  /\ last = NoLast
  /\ \E i \in DOMAIN users :
       /\ users[i].is_active
       /\ users' = [users EXCEPT ![i].is_active = FALSE]
  /\ UNCHANGED << phase, ml, diskM, diskV, loads, trains, cache_enabled, redis,
                  rows, baseRows, inflight, last, upload, drift, probe, pending,
                  clock, limiter >>

\* time passes: past the life of an access token, or of a refresh token
Tick ==
  /\ last = NoLast
  /\ clock.ticks < MaxTicks
  /\ \E d \in {ACCESS_TOKEN_EXPIRE_MINUTES + 1,
               REFRESH_TOKEN_EXPIRE_DAYS * MinutesPerDay + 1} :
       clock' = [now |-> clock.now + d, ticks |-> clock.ticks + 1]
  /\ UNCHANGED << phase, ml, diskM, diskV, loads, trains, cache_enabled, redis,
                  rows, baseRows, inflight, last, upload, drift, probe, users,
                  pending, limiter >>

\* the service after its start-up, with the accounts the operator set up and
\* enough predictions for a drift analysis
InitAuth ==
  /\ phase = "up"
  /\ ml = NewMLService
  /\ diskM = DiskM([m |-> NoModelFile, v |-> NoVecFile, lm |-> NoModelFile,
                    lv |-> NoVecFile])
  /\ diskV = DiskV([m |-> NoModelFile, v |-> NoVecFile, lm |-> NoModelFile,
                    lv |-> NoVecFile])
  /\ loads = 1
  /\ trains = 1
  /\ cache_enabled = FALSE
  /\ redis = <<>>
  /\ rows = <<>>
  /\ baseRows = MinSamples
  /\ inflight = EmptyBag
  /\ last = NoLast
  /\ upload = "idle"
  /\ drift = [pc |-> "idle", session |-> "closed", result |-> NoResult]
  /\ probe = NoProbe
  /\ users \in SeedTables
  /\ pending = EmptyBag
  /\ clock = [now |-> 0, ticks |-> 0]
  /\ limiter = NoLimiter

NextAuth ==
  \/ \E email \in {NewEmail, AdminEmail}, password \in Passwords :
       RegisterStart(email, password)
  \/ RegisterCommit
  \/ \E email \in {NewEmail, DisabledEmail}, password \in Passwords :
       Login(email, password)
  \/ \E token \in PresentableTokens(clock.now) : Refresh(token)
  \/ \E token \in PresentableTokens(clock.now) : Me(token)
  \/ \E token \in PresentableTokens(clock.now) : DriftAnalyzeAs(token)
  \/ \E token \in PresentableTokens(clock.now) : ListReportsAs(token)
  \/ OperatorDisables
  \/ Tick
  \/ Deliver

SpecAuth == InitAuth /\ [][NextAuth]_vars

\* ----------------------------------------------------------- rate limit
\* routers/predictions.py: limiter = Limiter(key_func=get_remote_address) and
\* @limiter.limit(settings.RATE_LIMIT_AUTHENTICATED) on predict_sentiment.
\* "100/minute" and "10/minute" are requests per window of one minute.
RATE_LIMIT_AUTHENTICATED == 100
RATE_LIMIT_ANONYMOUS == 10

\* the callers: with a valid access token or without a token, both behind
\* the one remote address
Callers == {"authenticated", "anonymous"}
RemoteAddresses == {"203.0.113.7"}

\* the limit the decorator applies to a request
limit_for(caller) == RATE_LIMIT_AUTHENTICATED

\* the limiter's check of one request.  hits: the requests counted under the
\* key in the current window; admitted = FALSE is RateLimitExceeded (429)
limiter_hit(hits, key, caller) ==
  IF hits[key] < limit_for(caller)
  THEN [admitted |-> TRUE, hits |-> [hits EXCEPT ![key] = @ + 1]]
  ELSE [admitted |-> FALSE, hits |-> hits]

\* a request to POST /predictions reaches the limiter's wrapper; an admitted
\* request goes on to predict_sentiment
LimitedPredict(address, caller) ==
  /\ LET h == limiter_hit(limiter.hits, address, caller)
     IN  limiter' = [limiter EXCEPT
                       !.hits = h.hits,
                       !.served[caller] = IF h.admitted THEN @ + 1 ELSE @,
                       !.refused = ~h.admitted]
  /\ UNCHANGED << phase, ml, diskM, diskV, loads, trains, cache_enabled, redis,
                  rows, baseRows, inflight, last, upload, drift, probe, users,
                  pending, clock >>

\* the minute ends: the limiter's counters expire
WindowEnds ==
  /\ limiter.window < MaxWindows
  /\ limiter' = [NoLimiter EXCEPT !.window = limiter.window + 1]
  /\ UNCHANGED << phase, ml, diskM, diskV, loads, trains, cache_enabled, redis,
                  rows, baseRows, inflight, last, upload, drift, probe, users,
                  pending, clock >>

NextLimit ==
  \/ \E address \in RemoteAddresses, caller \in Callers :
       LimitedPredict(address, caller)
  \/ WindowEnds

InitLimit == InitAuth /\ users = <<>>

SpecLimit == InitLimit /\ [][NextLimit]_vars


\* ----------------------------------------------------------------- claims
Served == {"predict", "batch", "upload"}

\* C1: for every pair of class probabilities, predict sets confidence to the
\* larger of the two, labels the text neutral exactly when confidence is below
\* 0.6, and then neutral_score = 1 - confidence; in every other case
\* neutral_score = 0 and the label is not neutral.
C1_NeutralBelowThreshold ==
  (probe # NoProbe /\ probe.loaded) =>
    LET r == probe.result
        p_neg == probe.out.probabilities[1]
        p_pos == probe.out.probabilities[2]
    IN  /\ r.confidence = Max(p_pos, p_neg)
        /\ (r.sentiment = "neutral") <=> (r.confidence < NeutralThreshold)
        /\ r.confidence < NeutralThreshold =>
             r.neutral_score = Scale - r.confidence
        /\ r.confidence >= NeutralThreshold =>
             r.neutral_score = 0 /\ r.sentiment # "neutral"

\* predict has labelled an output whose confidence is exactly the threshold
C1_AtThreshold ==
  /\ probe # NoProbe
  /\ probe.loaded
  /\ probe.result.confidence = NeutralThreshold
  /\ probe.result.sentiment = "positive"
  /\ probe.result.neutral_score = 0

\* C2: for every classifier output whose confidence is at least 0.6, the
\* label is positive if and only if positive_score > negative_score, and
\* negative otherwise, whatever class the classifier's predict call reports.
C2_LabelFollowsScores ==
  (probe # NoProbe /\ probe.loaded
     /\ probe.result.confidence >= NeutralThreshold) =>
    LET r == probe.result
    IN  /\ (r.sentiment = "positive") <=> (r.positive_score > r.negative_score)
        /\ (r.sentiment = "negative") <=> ~(r.positive_score > r.negative_score)

\* C3: in every response of the single-predict, batch and upload endpoints
\* positive_score + negative_score is 1, whatever the model type loaded.
C3_ScoresSumToOne ==
  (last.kind \in Served /\ last.status = 200) =>
    /\ last.kind = "predict" =>
         last.response.positive_score + last.response.negative_score = Scale
    /\ \A i \in DOMAIN last.results :
         last.results[i].positive_score + last.results[i].negative_score = Scale

\* a batch answered by an SVC model with one result
C3_SvmBatchAnswered ==
  /\ last.kind = "batch"
  /\ last.status = 200
  /\ last.total_processed = 1
  /\ ml.model.mtype = "svm"

\* C4: with no artifacts loaded, predict fails with its model-unavailable
\* error, and a valid request to the predict, batch or upload endpoint is
\* answered 503 without a cache read or write, a classifier call or a row.
C4_NotLoadedAnswers503 ==
  /\ \A o \in Outputs("svm", SampleProbs) :
       predict(FALSE, o) = [error |-> "RuntimeError"]
  /\ (last.kind \in Served /\ last.status # 422
        /\ ~(ml.loaded /\ ml.model # NoModel /\ ml.vectorizer # NoVectorizer)) =>
       /\ last.status = 503
       /\ last.gets = 0 /\ last.sets = 0 /\ last.calls = 0
       /\ last.results = <<>> /\ last.response = NoResponse
       /\ Len(rows) = last.rowsBefore

\* an upload answered 503 by a service whose model file has no vectorizer
C4_UploadRefused ==
  /\ last.kind = "upload"
  /\ last.status = 503
  /\ ml.model # NoModel
  /\ ml.vectorizer = NoVectorizer

\* C5: with the cache enabled and no Redis call failing, a single-predict
\* request that completes successfully on a miss has stored its response in
\* Redis under the request's key.
C5_MissPopulatesCache ==
  (last.kind = "predict" /\ last.status = 200 /\ ~last.hit /\ cache_enabled
     /\ ~last.getFailed /\ ~last.setFailed) =>
    /\ last.setSent
    /\ last.setRet

\* C6: a reload that replaces the model changes the cache key of every text:
\* the key a request computes after the reload differs from the key a request
\* for the same text computed before it.
C6_KeyChangesOnReload ==
  [][(is_loaded(ml) /\ is_loaded(ml') /\ ml'.model.load # ml.model.load) =>
       \A raw \in RawTexts :
         ValidateText(raw).ok =>
           CacheKey(sanitize_text(ValidateText(raw).text), ml'.model_version)
             # CacheKey(sanitize_text(ValidateText(raw).text), ml.model_version)]_vars

\* C7: a failing Redis call is contained: get answers a miss, set and delete
\* answer False, none raises; and a single-predict request whose cache lookup
\* failed answers 200 with the classification of its classifier output
\* whenever the classifier and the database did their part.
C7_CacheFailureContained ==
  /\ \A k \in DOMAIN redis \cup {HealthKey, last.key} :
       /\ CacheGet(TRUE, redis, k, TRUE) =
            [hit |-> FALSE, value |-> <<>>, raised |-> FALSE]
       /\ CacheSetDone(redis, k, <<>>, CACHE_TTL_SECONDS, TRUE) =
            [store |-> redis, ret |-> FALSE]
       /\ CacheDelete(TRUE, redis, k, TRUE) = [store |-> redis, ret |-> FALSE]
  /\ (last.kind = "predict" /\ last.getFailed) =>
       /\ ~last.hit
       /\ last.calls = 1
       /\ (~last.clfRaised /\ ~last.dbFailed) =>
            /\ last.status = 200
            /\ LET p == predict(TRUE, last.out)
               IN  /\ last.response.sentiment = p.sentiment
                   /\ last.response.confidence = p.confidence
                   /\ last.response.positive_score = p.positive_score
                   /\ last.response.negative_score = p.negative_score
                   /\ last.response.neutral_score = p.neutral_score

\* a request answered 200 after its cache lookup failed
C7_AnsweredDespiteGetFailure ==
  /\ last.kind = "predict"
  /\ last.getFailed
  /\ last.status = 200
  /\ last.response.sentiment = "positive"

C9_BatchIsolatesFailures ==
  (last.kind \in {"batch", "upload"} /\ last.status = 200) =>
    /\ \A i \in DOMAIN last.fate : last.fate[i] # "session"
    /\ last.total_processed = Len(last.results)

\* C10: whenever predictions are served, the model and the vectorizer were
\* read by the same load_models call.
C10_ArtifactsFromSameLoad ==
  is_loaded(ml) => ml.model.load = ml.vectorizer.load

\* C11: load_models takes, for the model and for the vectorizer, the first
\* path of its list that exists, and returns True only when both files were
\* found and loaded by this call; whatever files are on disk.
C11_FirstExistingOfEach ==
  \A mraise \in BOOLEAN, vraise \in BOOLEAN :
    LET l == LoadModels(ml, diskM, diskV, loads + 1, mraise, vraise)
        First(paths, disk) ==
          IF \E i \in DOMAIN paths : disk[paths[i]].gen >= 0
          THEN CHOOSE i \in DOMAIN paths :
                 /\ disk[paths[i]].gen >= 0
                 /\ \A j \in 1 .. i - 1 : disk[paths[j]].gen < 0
          ELSE 0
        mi == First(model_paths, diskM)
        vi == First(vectorizer_paths, diskV)
        mread == l.svc.model.load = loads + 1
        vread == l.svc.vectorizer.load = loads + 1
    IN  /\ mread <=> (mi # 0 /\ ~mraise)
        /\ mread => /\ l.svc.model.gen = diskM[model_paths[mi]].gen
                    /\ l.svc.model.mtype = diskM[model_paths[mi]].mtype
        /\ ~mread => l.svc.model = ml.model
        /\ vread <=> (vi # 0 /\ ~vraise /\ ~(mi # 0 /\ mraise))
        /\ vread => l.svc.vectorizer.gen = diskV[vectorizer_paths[vi]].gen
        /\ ~vread => l.svc.vectorizer = ml.vectorizer
        /\ l.ret <=> (mread /\ vread)
        /\ l.ret => is_loaded(l.svc)

\* the service holds the model of the configured path, read by the latest
\* load, while a legacy model file exists as well
C11_PrimaryBeforeLegacy ==
  /\ diskM[PrimaryModel].gen >= 0
  /\ diskM[LegacyModel].gen >= 0
  /\ diskM[PrimaryModel].gen # diskM[LegacyModel].gen
  /\ is_loaded(ml)
  /\ ml.model.load = loads
  /\ ml.model.gen = diskM[PrimaryModel].gen

\* C12: a scheduled drift check in which a step failed (the query or the
\* analysis raised or reported an error, the training raised, load_models
\* returned False) leaves model, vectorizer and loaded flag as they were.
C12_FailedCheckLeavesService ==
  [][(last = NoLast /\ last'.kind = "drift_check"
        /\ (\/ last'.dstatus \in {"raised", "error"}
            \/ last'.trained = "raised"
            \/ (last'.reloaded /\ ~last'.loadRet))) =>
       /\ ml'.model = ml.model
       /\ ml'.vectorizer = ml.vectorizer
       /\ ml'.loaded = ml.loaded]_vars

\* C13: a drift analysis that finds fewer than 10 rows in its window reports
\* no drift without running the comparison, and the scheduled check then
\* neither trains nor reloads; a training in progress saw at least 10 rows.
C13_TooFewRowsNoTraining ==
  /\ (last.kind \in {"drift_check", "analyze"} /\ last.dstatus # "raised"
        /\ last.seen < MinSamples) =>
       /\ last.dstatus \in {"error", "skipped"}
       /\ ~last.ran
       /\ ~last.drift_detected
       /\ last.trained = "no"
       /\ ~last.reloaded
  /\ drift.pc = "training" => drift.result.seen >= MinSamples

\* a scheduled check that found 9 rows and was skipped
C13_NineRowsSkipped ==
  /\ last.kind = "drift_check"
  /\ last.seen = MinSamples - 1
  /\ last.dstatus = "skipped"
  /\ drift.pc = "idle"

\* C14: in the scheduled check the training starts only in the step whose
\* analysis reported drift, load_models is called after start-up only by a
\* check whose training returned, and a check whose training raised calls no
\* load_models and leaves the service as it was.
C14_TrainThenReload ==
  [][/\ (drift.pc # "training" /\ drift'.pc = "training") =>
          /\ drift.pc = "analyzing"
          /\ drift'.result.status = "success"
          /\ drift'.result.drift_detected
     /\ (phase = "up" /\ loads' # loads) =>
          /\ drift.pc = "training"
          /\ drift.result.drift_detected
          /\ last'.kind = "drift_check"
          /\ last'.trained = "ok"
          /\ last'.reloaded
     /\ (last = NoLast /\ last'.kind = "drift_check"
           /\ last'.trained # "ok") =>
          /\ ~last'.reloaded
          /\ loads' = loads
          /\ ml' = ml]_vars

\* a scheduled check whose training raised has ended without a reload
C14_TrainingRaised ==
  /\ last.kind = "drift_check"
  /\ last.drift_detected
  /\ last.trained = "raised"
  /\ ~last.reloaded
  /\ drift.pc = "idle"

\* C15: every analysis that reports drift, scheduled or requested through
\* /drift/analyze, starts a training in the step that obtains the report.
C15_DriftStartsTraining ==
  [][(\/ (last = NoLast /\ last'.kind = "analyze" /\ last'.drift_detected)
      \/ (drift.pc = "analyzing" /\ drift'.pc # "analyzing"
            /\ (drift'.result.drift_detected \/ last'.drift_detected))) =>
       (drift.pc # "training" /\ drift'.pc = "training")]_vars

\* C16: while a scheduled drift check is in its analysis or waits for its
\* training, a single-predict request that the service has room for can
\* start.
C16_PredictionsNotBlocked ==
  (/\ drift.pc \in {"analyzing", "training"}
   /\ phase = "up"
   /\ last = NoLast
   /\ Inflight < MaxInflight
   /\ Len(rows) + Inflight < MaxRows) =>
    ENABLED (\E raw \in RawTexts : PredictStart(raw))

\* C17: a scheduled drift check that has started returns to idle, and a
\* finished check has raised nothing to the scheduler and has closed its
\* session.
C17_CheckReturnsToIdle ==
  /\ (drift.pc # "idle") ~> (drift.pc = "idle")
  /\ [](last.kind = "drift_check" =>
          /\ ~last.propagated
          /\ last.session = "closed"
          /\ drift.session = "closed"
          /\ drift.pc = "idle")
  /\ [](drift.pc # "idle" => drift.session = "open")

\* a scheduled check has ended after an exception inside its try block
C17_EndedAfterException ==
  /\ last.kind = "drift_check"
  /\ (last.dstatus = "raised" \/ last.trained = "raised")
  /\ last.session = "closed"
  /\ drift.pc = "idle"

\* C18: a text that is empty or blank fails the request validation, and the
\* single-predict request that carries it is answered 422 with no cache
\* call, no classifier call and no row.
C18_BlankTextRejected ==
  /\ \A raw \in RawTexts : Strip(raw) = <<>> => ~ValidateText(raw).ok
  /\ (last.kind = "predict" /\ last.raw # <<>>
        /\ Strip(last.raw[1]) = <<>>) =>
       /\ last.status = 422
       /\ last.calls = 0 /\ last.gets = 0 /\ last.sets = 0
       /\ last.response = NoResponse
       /\ Len(rows) = last.rowsBefore

\* a blank text was answered 422 by a service with a model loaded
C18_BlankAnswered422 ==
  /\ last.kind = "predict"
  /\ last.raw = << <<Blank>> >>
  /\ last.status = 422
  /\ is_loaded(ml)

\* C19: every text handed to the classifier by the single-predict, batch and
\* upload endpoints is a result of sanitize_text and is not empty.
C19_ClassifierTextsSanitized ==
  (last.kind \in Served /\ last.calls > 0) =>
    /\ last.kind = "predict" =>
         /\ last.clean # <<>>
         /\ sanitize_text(last.clean) = last.clean
    /\ \A i \in DOMAIN last.texts :
         /\ last.texts[i] # <<>>
         /\ sanitize_text(last.texts[i]) = last.texts[i]

C27_InvalidUploadAnswers400 ==
  (/\ last.kind = "upload"
   /\ last.status # 503
   /\ \/ ~last.filename_ok
      \/ /\ last.file # <<>>
         /\ \/ ~last.file[1].utf8
            \/ ~last.file[1].has_text
            \/ last.file[1].n > MaxUploadRows) =>
    /\ last.status = 400
    /\ last.calls = 0
    /\ Len(rows) = last.rowsBefore

\* C28: an upload of a UTF-8 CSV with a 'text' column and between 1 and 500
\* non-empty rows is answered 200 with the batch response, and every row the
\* classifier and the database accept is classified and stored.
C28_ValidUploadAccepted ==
  (/\ last.kind = "upload"
   /\ last.file # <<>>
   /\ last.file[1].utf8
   /\ last.file[1].has_text
   /\ last.file[1].n >= 1
   /\ last.file[1].n <= MaxUploadRows
   /\ is_loaded(ml)) =>
    /\ last.status = 200
    /\ last.calls = last.file[1].n
    /\ (\A i \in DOMAIN last.fate : last.fate[i] = "ok") =>
         /\ last.total_processed = last.file[1].n
         /\ Len(rows) = last.rowsBefore + last.file[1].n

\* C29: the value load_models returns equals is_loaded after the call: in
\* the call of the start-up, whatever files exist and whichever joblib.load
\* raises, and in the call a drift check makes after its training.
C29_ReturnEqualsIsLoaded ==
  /\ phase = "boot" =>
       \A mraise \in BOOLEAN, vraise \in BOOLEAN :
         LET l == LoadModels(ml, diskM, diskV, loads + 1, mraise, vraise)
         IN  l.ret <=> is_loaded(l.svc)
  /\ (last.kind = "drift_check" /\ last.reloaded) =>
       (last.loadRet <=> is_loaded(ml))

\* C30, its case: no single-predict request is ever answered from the cache,
\* and Redis never holds an entry under a prediction key.
C30_NoHitEverHappens ==
  /\ ~(last.kind = "predict" /\ last.hit)
  /\ \A k \in DOMAIN redis : k = HealthKey

\* the caller of the request that just finished presented a token the
\* service signed, not yet expired, of the given type, whose subject is an
\* account of the users table
ValidTokenOf(type) ==
  /\ last.token # <<>>
  /\ last.token[1].sig = SECRET_KEY
  /\ last.token[1].payload.exp >= clock.now
  /\ last.token[1].payload.type = type
  /\ \E i \in DOMAIN users : users[i].email = last.token[1].payload.sub

TokenUser ==
  users[CHOOSE i \in DOMAIN users : users[i].email = last.token[1].payload.sub]

\* C22: the endpoints behind get_current_user admit a caller only with a
\* valid access token and answer a refresh token 401; the refresh endpoint
\* issues an access token, for the token's subject, exactly for a valid
\* refresh token of an existing active user, and answers 401 otherwise, an
\* access token included.
C22_TokenTypesNotInterchangeable ==
  /\ last.kind \in {"me", "analyze", "reports"} =>
       /\ last.status # 401 => ValidTokenOf("access")
       /\ (last.token # <<>> /\ last.token[1].payload.type = "refresh") =>
            /\ last.status = 401
            /\ last.user = <<>>
            /\ ~last.analysed /\ ~last.listed
  /\ last.kind = "refresh" =>
       /\ last.status \in {200, 401}
       /\ last.status = 200 <=>
            (ValidTokenOf("refresh") /\ TokenUser.is_active)
       /\ last.status = 200 =>
            /\ last.issued.access_token # <<>>
            /\ last.issued.access_token[1].payload.type = "access"
            /\ last.issued.access_token[1].payload.sub =
                 last.token[1].payload.sub
            /\ last.issued.access_token[1].sig = SECRET_KEY
       /\ last.status = 401 => last.issued.access_token = <<>>
       /\ last.token[1].payload.type = "access" => last.status = 401

\* the refresh endpoint has answered 401 to the unexpired access token of an
\* existing active user
C22_AccessTokenRefused ==
  /\ last.kind = "refresh"
  /\ last.status = 401
  /\ ValidTokenOf("access")
  /\ TokenUser.is_active

\* C23: POST /drift/analyze and GET /drift/reports run exactly for a caller
\* with a valid access token of an existing, active, admin user; every other
\* caller is answered 401 or 403, no analysis is executed and no report is
\* written or listed.
C23_DriftForAdminsOnly ==
  last.kind \in {"analyze", "reports"} =>
    LET admin == /\ ValidTokenOf("access")
                 /\ TokenUser.is_active
                 /\ TokenUser.is_admin
    IN  /\ admin => /\ last.status \notin {401, 403}
                    /\ last.kind = "analyze" => last.analysed
                    /\ last.kind = "reports" => last.listed
        /\ ~admin => /\ last.status \in {401, 403}
                     /\ ~last.analysed
                     /\ ~last.ran
                     /\ last.dstatus = None
                     /\ ~last.listed

\* a registered user without admin rights asked for a drift analysis with a
\* valid access token and was answered 403
C23_NonAdminRefused ==
  /\ last.kind = "analyze"
  /\ last.status = 403
  /\ ValidTokenOf("access")
  /\ TokenUser.is_active
  /\ ~TokenUser.is_admin
  /\ ~last.analysed

\* C24: a registration whose email belongs to a user when the handler looks
\* it up is answered 400 and leaves the users table as it is, and no two
\* rows of the users table have the same email, whatever registrations run
\* and however they interleave.
C24_OneUserPerEmail ==
  /\ [](\A i \in DOMAIN users, j \in DOMAIN users :
          users[i].email = users[j].email => i = j)
  /\ [][(/\ last = NoLast
         /\ last'.kind = "register"
         /\ last'.status # 422
         /\ pending' = pending
         /\ \E i \in DOMAIN users : users[i].email = last'.email) =>
          /\ last'.status = 400
          /\ users' = users
          /\ last'.issued = NoLast.issued]_vars

\* of two registrations of one new email that ran concurrently, the second
\* to commit has been refused by the database
C24_ConcurrentLoserRefused ==
  /\ last.kind = "register"
  /\ last.status = 500
  /\ last.email = NewEmail
  /\ Len(users) = last.usersBefore
  /\ \E i \in DOMAIN users : users[i].email = NewEmail

\* C25: a registration of a new email with a valid password that creates the
\* user is answered 200 with an access token and the user record of that
\* email.
C25_NewEmailAnswers200 ==
  (last.kind = "register" /\ last.user # <<>>) =>
    /\ last.status = 200
    /\ last.issued.access_token # <<>>
    /\ last.user[1].email = last.email

\* C26: within one window the limiter serves an anonymous caller at most 10
\* requests to POST /predictions and an authenticated caller at most 100.
C26_RateLimitedPerCaller ==
  /\ limiter.served["anonymous"] <= RATE_LIMIT_ANONYMOUS
  /\ limiter.served["authenticated"] <= RATE_LIMIT_AUTHENTICATED

====
